---------------------------- MODULE Spec2Model ----------------------------
(***************************************************************************)
(* Model of the load-generation engine of llm-test: TestEngine.Run (the    *)
(* matrix driver), runTestWithConcurrency (run scheduler, worker pool,     *)
(* sample recorder, aggregation) and calculatePercentile, together with    *)
(* the behaviour of the invokers (model.GenerateResponse) the engine sees. *)
(*                                                                         *)
(* Time is a discrete clock `now` that restarts with every cell (the code  *)
(* only uses differences of time.Now()).  One unit stands for the grain of *)
(* the configured durations.  An invocation takes at least one unit and   *)
(* returns at the instant it is due; every other statement takes no time   *)
(* of its own.  Under Spec the scheduler may hold any goroutine back at    *)
(* any statement while time goes on; under TimedSpec it never does.        *)
(***************************************************************************)
EXTENDS Integers, Sequences, FiniteSets, TLC

VARIABLES
    cfg,            \* the loaded configuration and the invokers' behaviour
    runPc,          \* main: "main" | "fatal"; Run: "run" | "cell" | "returned"
                    \* | "crashed"
    mi,             \* Run: index of the model of the outer loop
    li,             \* Run: index of the level of the inner loop
    results,        \* Run: local map results, key -> TestResult
    e_results,      \* TestEngine.results
    retResults,     \* Run's first return value (NoResults until it returns)
    retErr,         \* Run's second return value (Nil, or the wrapped error)
    resultKey,      \* key of the cell being run
    started,        \* history: the cells started so far, <<model index, level>>
    concurrency,    \* runTestWithConcurrency: parameter concurrency
    useStream,      \* runTestWithConcurrency: local useStream
    pc,             \* runTestWithConcurrency: position of the calling goroutine
    jobs,           \* number of tokens buffered in the channel jobs
    jobsClosed,     \* whether close(jobs) has been executed
    sem,            \* number of slots held in the channel sem
    wk,             \* the worker goroutines: w -> [pc, start, due, err, lat, tok, seen,
                    \* stream]
    latencies,      \* the slice latencies
    successCount, failedCount, totalLatency, inputTokens, outputTokens,
    requestCount,
    startTime,      \* time.Now() of line 165
    timerAt,        \* instant at which the channel of time.After delivers
    warmEnd,        \* instant at which time.Sleep(WarmupDuration) returns
    now,            \* the clock
    calls,          \* history: number of GenerateResponse calls started in the cell
    lateSends,      \* history: sends completed after the timer had fired
    okLat,          \* history: total time.Since(start) of the calls that returned nil
    fault           \* history: Nil, or the name of the variant whose cell died
                    \* or that InitializeModels gave up on

vars == <<cfg, runPc, mi, li, results, e_results, retResults, retErr, resultKey,
          started, concurrency, useStream, pc, jobs, jobsClosed, sem, wk,
          latencies, successCount, failedCount, totalLatency, inputTokens, outputTokens,
          requestCount, startTime, timerAt, warmEnd, now, calls, lateSends, okLat,
          fault>>

cellVars == <<concurrency, useStream, pc, jobs, jobsClosed, sem, wk, latencies,
              successCount, failedCount, totalLatency, inputTokens, outputTokens,
              requestCount, startTime, timerAt, warmEnd, now, calls, lateSends,
              okLat>>

Nil == "nil"

Min(a, b) == IF a <= b THEN a ELSE b

-----------------------------------------------------------------------------
(* Configurations.                                                         *)

\* ModelConfig.Stream, a *bool: nil, or a pointer to a value.
NoStream == [set |-> FALSE, val |-> FALSE]
StreamSet(b) == [set |-> TRUE, val |-> b]

\* config.PromptConfig, of which the engine reads Stream.
PromptConfig(stream) == [Stream |-> stream]

\* A variant: config.ModelConfig plus the behaviour of its invoker.  lats
\* is the set of times its response may need, errs the results a call may
\* end with of its own accord (Nil is success), paramsOk whether Params
\* holds "model", "temperature" and "max_tokens" with the asserted types.
Variant(name, type, paramsOk, levels, lats, errs) ==
    [name |-> name, type |-> type, paramsOk |-> paramsOk, levels |-> levels,
     lats |-> lats, errs |-> errs, inTok |-> 2, outTok |-> 1,
     stream |-> NoStream]

\* config.TestConfig as LoadConfig hands it over, max_retries left to its
\* default of 3.
TestConfig(conc, levels, dur, warm, timeout, pcts) ==
    [Concurrency |-> conc, ConcurrencyLevels |-> levels, Duration |-> dur,
     WarmupDuration |-> warm, RequestTimeout |-> timeout,
     LatencyPercentiles |-> pcts, MaxRetries |-> 3]

\* The longest time a response takes of its own accord, in clock units.
MaxLatency == 2

\* One variant at the base concurrency 1; calls of 1..MaxLatency units,
\* each of which may fail.
CfgMixed ==
    [models |-> << Variant("a", "openai", TRUE, << >>, 1..MaxLatency, {Nil, "error"}) >>,
     test   |-> TestConfig(1, << >>, 1, 0, MaxLatency, <<50, 99>>),
     prompt |-> PromptConfig(FALSE)]

\* A warmup, a request timeout shorter than the slow responses, and
\* max_retries: 1.
CfgTimeout ==
    [models |-> << Variant("a", "anthropic", TRUE, <<1>>, {1, 2}, {Nil}) >>,
     test   |-> [TestConfig(2, <<2>>, 1, 1, 1, << >>) EXCEPT !.MaxRetries = 1],
     prompt |-> PromptConfig(TRUE)]

\* Two workers against an endpoint that answers every call with an error.
CfgDown ==
    [models |-> << Variant("a", "openai", TRUE, << >>, {1}, {"error"}) >>,
     test   |-> TestConfig(2, << >>, 1, 0, 2, <<50>>),
     prompt |-> PromptConfig(FALSE)]

\* Two variants, one with its own levels and stream: true, the other on
\* the global list and the global stream setting.
CfgMatrix ==
    [models |-> << [Variant("a", "anthropic", TRUE, <<1, 2>>, {1}, {Nil})
                       EXCEPT !.stream = StreamSet(TRUE)],
                   Variant("b", "anthropic", TRUE, << >>, {1}, {Nil}) >>,
     test   |-> TestConfig(1, <<2, 1>>, 1, 0, 2, <<50>>),
     prompt |-> PromptConfig(FALSE)]

\* The second of three variants has Params without "model".
CfgBadParams ==
    [models |-> << Variant("a", "anthropic", TRUE, <<1>>, {1}, {Nil}),
                   Variant("b", "openai", FALSE, << >>, {1}, {Nil}),
                   Variant("c", "anthropic", TRUE, <<1>>, {1}, {Nil}) >>,
     test   |-> TestConfig(1, << >>, 1, 0, 2, <<50>>),
     prompt |-> PromptConfig(FALSE)]

\* A global level list holding 0, which LoadConfig lets through.
CfgZeroLevel ==
    [models |-> << Variant("a", "anthropic", TRUE, << >>, {1}, {Nil}) >>,
     test   |-> TestConfig(1, <<1, 0>>, 1, 0, 2, <<50>>),
     prompt |-> PromptConfig(FALSE)]

\* A negative level, which LoadConfig lets through.
CfgNegativeLevel ==
    [models |-> << Variant("a", "anthropic", TRUE, <<-1>>, {1}, {Nil}) >>,
     test   |-> TestConfig(1, << >>, 1, 0, 2, <<50>>),
     prompt |-> PromptConfig(FALSE)]

\* A level listed twice for a variant with stream: false under a global
\* stream: true, and a second variant whose name ends like a key.
CfgRepeat ==
    [models |-> << [Variant("a", "anthropic", TRUE, <<1, 1>>, {1}, {Nil})
                       EXCEPT !.stream = StreamSet(FALSE)],
                   Variant("a-1", "anthropic", TRUE, <<1>>, {1}, {Nil}) >>,
     test   |-> TestConfig(1, << >>, 1, 0, 2, <<50>>),
     prompt |-> PromptConfig(TRUE)]

\* The configurations explored under every scheduling of the goroutines.
Configs == {CfgMixed, CfgTimeout, CfgDown, CfgBadParams, CfgZeroLevel, CfgRepeat}

\* The configurations explored under scheduling without delay.
TimedConfigs == Configs \cup {CfgMatrix, CfgNegativeLevel}

\* An entry of the models list of the configuration file: the variant, its
\* skip flag, and whether its constructor succeeds.
ModelEntry(name, type, skip, builds) ==
    [v |-> Variant(name, type, TRUE, << >>, {1}, {Nil}), skip |-> skip,
     builds |-> builds]

\* The configuration as LoadConfig returns it, before InitializeModels.
Loaded(entries) ==
    [variants |-> entries, models |-> << >>,
     test   |-> TestConfig(1, << >>, 1, 0, 2, <<50>>),
     prompt |-> PromptConfig(FALSE)]

\* Model lists: all constructible with one skipped; an unsupported type in
\* the middle; a constructor that fails; unsupported or unconstructible
\* entries that are skipped; two bad entries; nothing but skipped entries.
MainConfigs ==
    { Loaded(<< ModelEntry("a", "anthropic", FALSE, TRUE),
                ModelEntry("b", "openai", TRUE, TRUE),
                ModelEntry("c", "anthropic", FALSE, TRUE) >>),
      Loaded(<< ModelEntry("a", "anthropic", FALSE, TRUE),
                ModelEntry("x", "llama", FALSE, TRUE),
                ModelEntry("c", "anthropic", FALSE, TRUE) >>),
      Loaded(<< ModelEntry("a", "anthropic", FALSE, TRUE),
                ModelEntry("g", "gemini", FALSE, FALSE) >>),
      Loaded(<< ModelEntry("x", "llama", TRUE, TRUE),
                ModelEntry("g", "gemini", TRUE, FALSE),
                ModelEntry("a", "anthropic", FALSE, TRUE) >>),
      Loaded(<< ModelEntry("g", "gemini", FALSE, FALSE),
                ModelEntry("x", "llama", FALSE, TRUE) >>),
      Loaded(<< ModelEntry("b", "openai", TRUE, TRUE) >>) }

\* The end-to-end scenario, with 50 ms as the unit: one variant at level
\* 10 whose calls all succeed after 50 ms, measured for 1 s, with the
\* default request timeout of 30 s and no percentile requested.
CfgScenario ==
    [models |-> << Variant("a", "anthropic", TRUE, << >>, {1}, {Nil}) >>,
     test   |-> TestConfig(10, << >>, 20, 0, 600, << >>),
     prompt |-> PromptConfig(FALSE)]

\* The most samples a cell hands to the reducer, and the longest sample.
MaxSamples == 5
MaxSample == 3

\* Every percentile 0..100 requested, as latency_percentiles lists them.
AllPercentiles == [i \in 1..101 |-> i - 1]

\* The sample lists of the reducer: 1..MaxSamples latencies in any order,
\* and five samples of 10 to 50 (with the millisecond as the unit).
ExampleSamples == <<40, 10, 50, 30, 20>>
SampleLists ==
    UNION { [1..n -> 1..MaxSample] : n \in 1..MaxSamples } \cup {ExampleSamples}

\* One variant at concurrency 1 whose calls succeed after the times of a
\* sample list, measured for as long as they take together, with every
\* percentile requested.
CfgReducer(lats) ==
    LET ds == {lats[i] : i \in DOMAIN lats}
        longest == CHOOSE x \in ds : \A y \in ds : y <= x
        RECURSIVE Total(_)
        Total(q) == IF q = << >> THEN 0 ELSE Head(q) + Total(Tail(q))
    IN  [models |-> << Variant("a", "anthropic", TRUE, << >>, ds, {Nil}) >>,
         test   |-> TestConfig(1, << >>, Total(lats), 0, longest, AllPercentiles),
         prompt |-> PromptConfig(FALSE)]

-----------------------------------------------------------------------------
(* Pure helpers.                                                           *)

\* An exact quotient, as the pair numerator/denominator (float64 division).
Frac(n, d) == [num |-> n, den |-> d]
Zero == Frac(0, 1)

\* fmt.Sprintf("%d", n) for the small integers of the model.
Digit(d) == CASE d = 0 -> "0" [] d = 1 -> "1" [] d = 2 -> "2" [] d = 3 -> "3"
              [] d = 4 -> "4" [] d = 5 -> "5" [] d = 6 -> "6" [] d = 7 -> "7"
              [] d = 8 -> "8" [] d = 9 -> "9"

RECURSIVE Itoa(_)
Itoa(n) == IF n < 0 THEN "-" \o Itoa(0 - n)
           ELSE IF n < 10 THEN Digit(n)
           ELSE Itoa(n \div 10) \o Digit(n % 10)

\* fmt.Sprintf("%s-%d", modelName, concurrency)
ResultKey(modelName, c) == modelName \o "-" \o Itoa(c)

\* sort.Slice ascending: insertion into a sorted sequence.
RECURSIVE Insert(_, _)
Insert(x, s) == IF s = << >> THEN <<x>>
                ELSE IF x <= Head(s) THEN <<x>> \o s
                ELSE <<Head(s)>> \o Insert(x, Tail(s))

\* The samples left in the order of their arrival.
Unsorted(s) == s

RECURSIVE SortAsc(_)
SortAsc(s) == IF s = << >> THEN << >> ELSE Insert(Head(s), SortAsc(Tail(s)))

\* The sum the workers accumulate with atomic.AddInt64.
RECURSIVE SumSeq(_)
SumSeq(s) == IF s = << >> THEN 0 ELSE Head(s) + SumSeq(Tail(s))

\* An index rounded to the nearest rank instead of truncated.
PercentileIndexRounded(n, percentile) == ((n - 1) * percentile + 50) \div 100

\* calculatePercentile: index int(float64(n-1) * float64(p) / 100.0) of the
\* sorted copy (Go sequences are 0-based, TLA+ sequences 1-based).
PercentileIndex(n, percentile) == ((n - 1) * percentile) \div 100

calculatePercentile(lats, percentile) ==
    SortAsc(lats)[PercentileIndex(Len(lats), percentile) + 1]

\* NewGeminiModel, whose source is not at hand: it fails on a target
\* configuration it cannot use.
NewGeminiModelFails(entry) == ~entry.builds

\* The constructor of an entry returns an error: NewOpenAIModel and
\* NewAnthropicModel never do (a proxy URL that does not parse is logged
\* and left out).
ConstructorFails(entry) ==
    IF entry.v.type = "gemini" THEN NewGeminiModelFails(entry) ELSE FALSE

\* An InitializeModels that leaves out the entries it cannot construct.
RECURSIVE InitializeModelsLenient(_, _)
InitializeModelsLenient(entries, models) ==
    IF entries = << >> THEN [err |-> Nil, models |-> models]
    ELSE LET e == Head(entries)
         IN  IF e.skip \/ e.v.type \notin {"openai", "anthropic", "gemini"}
                \/ ConstructorFails(e)
             THEN InitializeModelsLenient(Tail(entries), models)
             ELSE InitializeModelsLenient(Tail(entries), Append(models, e.v))

\* InitializeModels: the loop over the entries, with `models` the list
\* built so far; the error names the entry it stopped at.
RECURSIVE InitializeModels(_, _)
InitializeModels(entries, models) ==
    IF entries = << >> THEN [err |-> Nil, models |-> models]
    ELSE LET e == Head(entries)
         IN  IF e.skip THEN InitializeModels(Tail(entries), models)
             ELSE IF e.v.type \notin {"openai", "anthropic", "gemini"}
                  THEN [err |-> e.v.name, models |-> << >>]
             ELSE IF ConstructorFails(e)
                  THEN [err |-> e.v.name, models |-> << >>]
             ELSE InitializeModels(Tail(entries), Append(models, e.v))

\* The global level list taking precedence over the variant's own.
ResolveLevelsGlobalFirst(mdl, test) ==
    IF Len(test.ConcurrencyLevels) > 0 THEN test.ConcurrencyLevels
    ELSE IF Len(mdl.levels) > 0 THEN mdl.levels
    ELSE << test.Concurrency >>

\* The concurrency levels Run uses for a variant.
ResolveLevels(mdl, test) ==
    IF Len(mdl.levels) > 0 THEN mdl.levels
    ELSE IF Len(test.ConcurrencyLevels) > 0 THEN test.ConcurrencyLevels
    ELSE << test.Concurrency >>

\* A variant's stream setting honoured only when it is true.
UseStreamIfTrue(m, prompt) ==
    IF m.stream.set /\ m.stream.val THEN TRUE ELSE prompt.Stream

\* useStream := e.prompt.Stream, replaced by *mdl.GetStreamSetting() when
\* that pointer is not nil.
UseStream(m, prompt) == IF m.stream.set THEN m.stream.val ELSE prompt.Stream

\* Run passing the base concurrency instead of the level.
CellConcurrencyBase(test, level) == test.Concurrency

\* The argument Run passes as concurrency for a level of the list.
CellConcurrency(test, level) == level

\* A deeper buffer.
JobsCapacityDeep(c) == c * 4

\* make(chan struct{}, concurrency*2)
JobsCapacity(c) == c * 2

\* &TestResult{ModelName, ConcurrencyLevel, Errors: make([]string, 0)}
NewResult(modelName, level) ==
    [ModelName |-> modelName, ConcurrencyLevel |-> level,
     TotalRequests |-> 0, SuccessRequests |-> 0, FailedRequests |-> 0,
     TotalDuration |-> 0, AvgLatency |-> 0,
     InputTokens |-> 0, OutputTokens |-> 0, TotalTokens |-> 0,
     AvgInputTokens |-> Zero, AvgOutputTokens |-> Zero, AvgTotalTokens |-> Zero,
     RequestsPerSec |-> Zero, TokensPerSec |-> Zero,
     Errors |-> << >>, LatencyPercentiles |-> << >>, AllLatencies |-> << >>]

\* A map that keeps the entry it already has under a key.
MapPutIfAbsent(m, key, value) ==
    [k \in DOMAIN m \cup {key} |-> IF k \in DOMAIN m THEN m[k] ELSE value]

\* results[key] = value
MapPut(m, key, value) ==
    [k \in DOMAIN m \cup {key} |-> IF k = key THEN value ELSE m[k]]

EmptyMap == [k \in {} |-> Nil]

\* A value of type map[string]*TestResult: the nil map, or a map.
NoResults == [nil |-> TRUE, map |-> EmptyMap]
ResultSet(m) == [nil |-> FALSE, map |-> m]

-----------------------------------------------------------------------------
(* State shorthands.                                                       *)

mdl == cfg.models[mi]
test == cfg.test
result == results[resultKey]
Workers == DOMAIN wk
InFlight == {w \in Workers : wk[w].pc = "invoking"}
AllExited == \A w \in Workers : wk[w].pc = "exited"
\* A timer that delivers one unit early.
TimerFiredEarly == now >= timerAt - 1

TimerFired == now >= timerAt

IdleWorker == [pc |-> "none", start |-> 0, due |-> 0, err |-> Nil, lat |-> 0,
               tok |-> 0, seen |-> << >>, stream |-> FALSE, resp |-> FALSE]

InitWith(configs) ==
    /\ cfg \in configs
    /\ runPc = "run"
    /\ mi = 1
    /\ li = 1
    /\ results = EmptyMap
    /\ e_results = EmptyMap
    /\ retResults = NoResults
    /\ retErr = Nil
    /\ resultKey = Nil
    /\ started = << >>
    /\ concurrency = 0
    /\ useStream = FALSE
    /\ pc = "idle"
    /\ jobs = 0
    /\ jobsClosed = FALSE
    /\ sem = 0
    /\ wk = << >>
    /\ latencies = << >>
    /\ successCount = 0
    /\ failedCount = 0
    /\ totalLatency = 0
    /\ inputTokens = 0
    /\ outputTokens = 0
    /\ requestCount = 0
    /\ startTime = 0
    /\ timerAt = 0
    /\ warmEnd = 0
    /\ now = 0
    /\ calls = 0
    /\ lateSends = 0
    /\ okLat = 0
    /\ fault = Nil

Init == InitWith(Configs)

TimedInit == InitWith(TimedConfigs)

\* main after LoadConfig: no invoker constructed yet.
MainInit ==
    /\ cfg \in MainConfigs
    /\ runPc = "main"
    /\ mi = 1
    /\ li = 1
    /\ results = EmptyMap
    /\ e_results = EmptyMap
    /\ retResults = NoResults
    /\ retErr = Nil
    /\ resultKey = Nil
    /\ started = << >>
    /\ concurrency = 0
    /\ useStream = FALSE
    /\ pc = "idle"
    /\ jobs = 0
    /\ jobsClosed = FALSE
    /\ sem = 0
    /\ wk = << >>
    /\ latencies = << >>
    /\ successCount = 0
    /\ failedCount = 0
    /\ totalLatency = 0
    /\ inputTokens = 0
    /\ outputTokens = 0
    /\ requestCount = 0
    /\ startTime = 0
    /\ timerAt = 0
    /\ warmEnd = 0
    /\ now = 0
    /\ calls = 0
    /\ lateSends = 0
    /\ okLat = 0
    /\ fault = Nil

\* runTestWithConcurrency at wg.Wait() with every worker gone: a cell at
\* concurrency 1 whose calls took the times of a sample list one after the
\* other, all with success, while the dispatcher pushed one token for each
\* within the duration.
ReducerInit ==
    \E lats \in SampleLists :
        LET n == Len(lats)
            c == CfgReducer(lats)
            m == c.models[1]
            key == ResultKey(m.name, 1)
        IN  /\ cfg = c
            /\ runPc = "cell"
            /\ mi = 1
            /\ li = 1
            /\ results = MapPut(EmptyMap, key, NewResult(m.name, 1))
            /\ e_results = EmptyMap
            /\ retResults = NoResults
            /\ retErr = Nil
            /\ resultKey = key
            /\ started = << <<1, 1>> >>
            /\ concurrency = 1
            /\ useStream = UseStream(m, c.prompt)
            /\ pc = "wait"
            /\ jobs = 0
            /\ jobsClosed = TRUE
            /\ sem = 0
            /\ wk = << [IdleWorker EXCEPT !.pc = "exited"] >>
            /\ latencies = lats
            /\ successCount = n
            /\ failedCount = 0
            /\ totalLatency = SumSeq(lats)
            /\ inputTokens = n * m.inTok
            /\ outputTokens = n * m.outTok
            /\ requestCount = n
            /\ startTime = 0
            /\ timerAt = c.test.Duration
            /\ warmEnd = 0
            /\ now = SumSeq(lats)
            /\ calls = n
            /\ lateSends = 0
            /\ okLat = SumSeq(lats)
            /\ fault = Nil


-----------------------------------------------------------------------------
(* TestEngine.Run, the matrix driver.                                      *)

\* main: models, err := model.InitializeModels(...); on an error log.Fatalf
\* ends the process, else NewTestEngine gets the invokers and Run starts.
InitModels ==
    /\ runPc = "main"
    /\ LET r == InitializeModels(cfg.variants, << >>)
       IN  IF r.err /= Nil
           THEN /\ runPc' = "fatal"
                /\ fault' = r.err
                /\ cfg' = cfg
           ELSE /\ runPc' = "run"
                /\ fault' = fault
                /\ cfg' = [cfg EXCEPT !.models = r.models]
    /\ UNCHANGED <<mi, li, results, e_results, retResults, retErr, resultKey,
                   started>>
    /\ UNCHANGED cellVars

\* The value runTestWithConcurrency returns: its only return statement is
\* `return nil`.
CellError == Nil

\* Run, one iteration of the inner loop up to the call of
\* runTestWithConcurrency, and that function up to the warmup sleep:
\* the key, the fresh result stored under it, the counters, the channels.
\* make(chan struct{}, concurrency*2) panics on a negative size.
StartCell ==
    /\ runPc = "run"
    /\ mi <= Len(cfg.models)
    /\ LET level == ResolveLevels(mdl, test)[li]
           key   == ResultKey(mdl.name, level)
           c     == CellConcurrency(test, level)
       IN  /\ results' = MapPut(results, key, NewResult(mdl.name, level))
           /\ resultKey' = key
           /\ started' = Append(started, <<mi, level>>)
           /\ concurrency' = c
           /\ useStream' = UseStream(mdl, cfg.prompt)
           /\ runPc' = IF c < 0 THEN "crashed" ELSE "cell"
           /\ fault' = IF c < 0 THEN mdl.name ELSE fault
           /\ pc' = IF c < 0 THEN "make" ELSE "warmup"
    /\ jobs' = 0
    /\ jobsClosed' = FALSE
    /\ sem' = 0
    /\ wk' = << >>
    /\ latencies' = << >>
    /\ successCount' = 0
    /\ failedCount' = 0
    /\ totalLatency' = 0
    /\ inputTokens' = 0
    /\ outputTokens' = 0
    /\ requestCount' = 0
    /\ now' = 0
    /\ startTime' = 0
    /\ timerAt' = 0
    /\ warmEnd' = IF test.WarmupDuration > 0 THEN test.WarmupDuration ELSE 0
    /\ calls' = 0
    /\ lateSends' = 0
    /\ okLat' = 0
    /\ UNCHANGED <<cfg, mi, li, e_results, retResults, retErr>>

\* Run after the loops: e.results = results; return results, nil.
RunReturn ==
    /\ runPc = "run"
    /\ mi > Len(cfg.models)
    /\ e_results' = results
    /\ retResults' = ResultSet(results)
    /\ retErr' = Nil
    /\ runPc' = "returned"
    /\ UNCHANGED <<cfg, mi, li, results, resultKey, started, fault>>
    /\ UNCHANGED cellVars

-----------------------------------------------------------------------------
(* runTestWithConcurrency: the calling goroutine.                          *)

\* A start time taken before the warmup sleep instead of after it.
SpawnClockedBeforeSleep ==
    /\ runPc = "cell"
    /\ pc = "warmup"
    /\ now >= warmEnd
    /\ startTime' = 0
    /\ wk' = [w \in 1..concurrency |-> [IdleWorker EXCEPT !.pc = "recv"]]
    /\ timerAt' = now + test.Duration
    /\ requestCount' = 0
    /\ pc' = "select"
    /\ UNCHANGED <<cfg, runPc, mi, li, results, e_results, retResults, retErr,
                   resultKey, started, concurrency, useStream, jobs, jobsClosed, sem,
                   latencies, successCount, failedCount, totalLatency,
                   inputTokens, outputTokens, warmEnd, now, calls, lateSends,
                   okLat, fault>>

\* time.Sleep(WarmupDuration) has returned: startTime, the C workers are
\* spawned (each blocks in `range jobs` until the first send), the duration
\* timer is armed, requestCount := 0.
Spawn ==
    /\ runPc = "cell"
    /\ pc = "warmup"
    /\ now >= warmEnd
    /\ startTime' = now
    /\ wk' = [w \in 1..concurrency |-> [IdleWorker EXCEPT !.pc = "recv"]]
    /\ timerAt' = now + test.Duration
    /\ requestCount' = 0
    /\ pc' = "select"
    /\ UNCHANGED <<cfg, runPc, mi, li, results, e_results, retResults, retErr,
                   resultKey, started, concurrency, useStream, jobs, jobsClosed, sem,
                   latencies, successCount, failedCount, totalLatency,
                   inputTokens, outputTokens, warmEnd, now, calls, lateSends,
                   okLat, fault>>

\* select { case <-timeout: break loop; default: ... }: the timer case is
\* taken when its channel is ready, the default case otherwise.
Select ==
    /\ runPc = "cell"
    /\ pc = "select"
    /\ pc' = IF TimerFired THEN "close" ELSE "send"
    /\ UNCHANGED <<cfg, runPc, mi, li, results, e_results, retResults, retErr,
                   resultKey, started, concurrency, useStream, jobs, jobsClosed, sem, wk,
                   latencies, successCount, failedCount, totalLatency,
                   inputTokens, outputTokens, requestCount, startTime, timerAt,
                   warmEnd, now, calls, lateSends, okLat, fault>>

\* default: jobs <- struct{}{}; requestCount++.  The send blocks while the
\* buffer is full; with capacity 0 it needs a receiver, and then there is
\* no worker.
Send ==
    /\ runPc = "cell"
    /\ pc = "send"
    /\ jobs < JobsCapacity(concurrency)
    /\ jobs' = jobs + 1
    /\ requestCount' = requestCount + 1
    /\ lateSends' = IF TimerFired THEN lateSends + 1 ELSE lateSends
    /\ pc' = "select"
    /\ UNCHANGED <<cfg, runPc, mi, li, results, e_results, retResults, retErr,
                   resultKey, started, concurrency, useStream, jobsClosed, sem, wk,
                   latencies, successCount, failedCount, totalLatency,
                   inputTokens, outputTokens, startTime, timerAt, warmEnd, now,
                   calls, okLat, fault>>

\* close(jobs)
Close ==
    /\ runPc = "cell"
    /\ pc = "close"
    /\ jobsClosed' = TRUE
    /\ pc' = "wait"
    /\ UNCHANGED <<cfg, runPc, mi, li, results, e_results, retResults, retErr,
                   resultKey, started, concurrency, useStream, jobs, sem, wk, latencies,
                   successCount, failedCount, totalLatency, inputTokens,
                   outputTokens, requestCount, startTime, timerAt, warmEnd, now,
                   calls, lateSends, okLat, fault>>

\* An aggregation that averages over all requests, failed ones included.
AggregatedPerRequest(r, totalDuration) ==
    LET all   == r.TotalRequests + requestCount
        inTok == r.InputTokens + inputTokens
        outTok == r.OutputTokens + outputTokens
        base  == [r EXCEPT !.TotalRequests = all,
                           !.SuccessRequests = r.SuccessRequests + successCount,
                           !.FailedRequests = r.FailedRequests + failedCount,
                           !.TotalDuration = r.TotalDuration + totalDuration,
                           !.AllLatencies = latencies]
    IN  IF successCount > 0
        THEN [base EXCEPT !.AvgLatency = totalLatency \div all,
                          !.InputTokens = inTok,
                          !.OutputTokens = outTok,
                          !.TotalTokens = inTok + outTok,
                          !.AvgInputTokens = Frac(inTok, all),
                          !.AvgOutputTokens = Frac(outTok, all),
                          !.AvgTotalTokens = Frac(inTok + outTok, all),
                          !.RequestsPerSec = Frac(all, totalDuration),
                          !.TokensPerSec = Frac(inTok + outTok, totalDuration)]
        ELSE base

\* The result after lines 224-257 of runTestWithConcurrency.
Aggregated(r, totalDuration) ==
    LET succ  == r.SuccessRequests + successCount
        inTok == r.InputTokens + inputTokens
        outTok == r.OutputTokens + outputTokens
        totTok == r.TotalTokens + inputTokens + outputTokens
        base  == [r EXCEPT !.TotalRequests = r.TotalRequests + requestCount,
                           !.SuccessRequests = succ,
                           !.FailedRequests = r.FailedRequests + failedCount,
                           !.TotalDuration = r.TotalDuration + totalDuration,
                           !.AllLatencies = latencies]
        rated == IF successCount > 0
                 THEN [base EXCEPT !.AvgLatency = totalLatency \div successCount,
                                   !.InputTokens = inTok,
                                   !.OutputTokens = outTok,
                                   !.TotalTokens = totTok,
                                   !.AvgInputTokens = Frac(inTok, succ),
                                   !.AvgOutputTokens = Frac(outTok, succ),
                                   !.AvgTotalTokens = Frac(totTok, succ),
                                   !.RequestsPerSec = Frac(succ, totalDuration),
                                   !.TokensPerSec = Frac(totTok, totalDuration)]
                 ELSE base
        pcts  == test.LatencyPercentiles
    IN  IF Len(latencies) > 0 /\ Len(pcts) > 0
        THEN [rated EXCEPT !.LatencyPercentiles =
                 [p \in {pcts[i] : i \in DOMAIN pcts} |->
                     calculatePercentile(latencies, p)]]
        ELSE rated

\* A wait that does not wait.
WaitReturnsAtOnce == TRUE

\* wg.Wait() returns once every worker has called wg.Done.
WaitReturns == AllExited

\* After wg.Wait() the aggregation, `return nil`, and Run's handling of the returned error:
\* on an error return nil and the wrapped error, else go on with the loops.
Aggregate ==
    /\ runPc = "cell"
    /\ pc = "wait"
    /\ WaitReturns
    /\ results' = [results EXCEPT ![resultKey] = Aggregated(result, now - startTime)]
    /\ pc' = "idle"
    /\ IF CellError /= Nil
       THEN /\ runPc' = "returned"
            /\ retErr' = mdl.name
            /\ retResults' = NoResults
            /\ UNCHANGED <<mi, li>>
       ELSE /\ runPc' = "run"
            /\ IF li < Len(ResolveLevels(mdl, test))
               THEN /\ li' = li + 1
                    /\ mi' = mi
               ELSE /\ li' = 1
                    /\ mi' = mi + 1
            /\ UNCHANGED <<retErr, retResults>>
    /\ UNCHANGED <<cfg, e_results, resultKey, started, concurrency, useStream, jobs,
                   jobsClosed, sem, wk, latencies, successCount, failedCount,
                   totalLatency, inputTokens, outputTokens, requestCount,
                   startTime, timerAt, warmEnd, now, calls, lateSends, okLat, fault>>

-----------------------------------------------------------------------------
(* runTestWithConcurrency: the worker goroutines.                          *)

workerUnchanged == <<cfg, mi, li, e_results, retResults, retErr, resultKey,
                     started, concurrency, useStream, pc, jobsClosed, requestCount,
                     startTime, timerAt, warmEnd, now, lateSends>>

\* for range jobs: a token is received.
Recv(w) ==
    /\ runPc = "cell"
    /\ wk[w].pc = "recv"
    /\ jobs > 0
    /\ jobs' = jobs - 1
    /\ wk' = [wk EXCEPT ![w].pc = "acquire"]
    /\ UNCHANGED workerUnchanged
    /\ UNCHANGED <<runPc, results, sem, latencies, successCount, failedCount,
                   totalLatency, inputTokens, outputTokens, calls, okLat, fault>>

\* A worker that leaves as soon as the channel is closed, tokens or not.
ExitOnClose(w) ==
    /\ runPc = "cell"
    /\ wk[w].pc = "recv"
    /\ jobsClosed
    /\ wk' = [wk EXCEPT ![w].pc = "exited"]
    /\ UNCHANGED workerUnchanged
    /\ UNCHANGED <<runPc, results, jobs, sem, latencies, successCount,
                   failedCount, totalLatency, inputTokens, outputTokens, calls,
                   okLat, fault>>

\* for range jobs: the channel is closed and empty, the loop ends and the
\* deferred wg.Done() runs.
Exit(w) ==
    /\ runPc = "cell"
    /\ wk[w].pc = "recv"
    /\ jobs = 0
    /\ jobsClosed
    /\ wk' = [wk EXCEPT ![w].pc = "exited"]
    /\ UNCHANGED workerUnchanged
    /\ UNCHANGED <<runPc, results, jobs, sem, latencies, successCount,
                   failedCount, totalLatency, inputTokens, outputTokens, calls,
                   okLat, fault>>

\* sem <- struct{}{}, which blocks while sem (capacity concurrency) is full.
Acquire(w) ==
    /\ runPc = "cell"
    /\ wk[w].pc = "acquire"
    /\ sem < concurrency
    /\ sem' = sem + 1
    /\ wk' = [wk EXCEPT ![w].pc = "call"]
    /\ UNCHANGED workerUnchanged
    /\ UNCHANGED <<runPc, results, jobs, latencies, successCount, failedCount,
                   totalLatency, inputTokens, outputTokens, calls, okLat, fault>>

\* An invoker that waits for its response whatever the context says.
OutcomesIgnoringContext(m, timeout) ==
    { [due |-> now + d, err |-> e] : <<d, e>> \in m.lats \X m.errs }

\* Calls whose context also ends when the duration timer fires.
OutcomesRunBound(m, timeout) ==
    LET left == IF timerAt > now THEN timerAt - now ELSE 0
        t    == Min(timeout, left)
    IN  { [due |-> now + Min(d, t), err |-> e] :
            <<d, e>> \in { <<d, e>> \in m.lats \X {Nil, "error", "deadline"} :
                             /\ (e = "deadline") => d >= t
                             /\ (e /= "deadline") => (e \in m.errs /\ d <= t) } }

\* What a call started now will end with: the instant it returns and its
\* error (Nil on success).  The context ends the call RequestTimeout after
\* its start; a response that is ready at that very instant may win or lose
\* the race against ctx.Done().
Outcomes(m, timeout) ==
    { [due |-> now + Min(d, timeout), err |-> e] :
        <<d, e>> \in { <<d, e>> \in m.lats \X {Nil, "error", "deadline"} :
                         /\ (e = "deadline") => d >= timeout
                         /\ (e /= "deadline") => (e \in m.errs /\ d <= timeout) } }

\* context.WithTimeout; start := time.Now(); mdl.GenerateResponse(...) is
\* entered.  OpenAIModel.GenerateResponse asserts the types of
\* Params["model"], ["temperature"], ["max_tokens"] before anything else:
\* without them the goroutine panics, nothing recovers, the process dies.
Call(w) ==
    /\ runPc = "cell"
    /\ wk[w].pc = "call"
    /\ calls' = calls + 1
    /\ IF mdl.type = "openai" /\ ~mdl.paramsOk
       THEN /\ runPc' = "crashed"
            /\ fault' = mdl.name
            /\ wk' = [wk EXCEPT ![w].pc = "panicked"]
       ELSE /\ \E o \in Outcomes(mdl, test.RequestTimeout) :
                 wk' = [wk EXCEPT ![w].pc = "invoking", ![w].start = now,
                                  ![w].due = o.due, ![w].err = o.err,
                                  ![w].stream = useStream]
            /\ UNCHANGED <<runPc, fault>>
    /\ UNCHANGED workerUnchanged
    /\ UNCHANGED <<results, jobs, sem, latencies, successCount, failedCount,
                   totalLatency, inputTokens, outputTokens, okLat>>

\* A GenerateResponse whose wait for ctx.Done() returns no error.
GenerateResponseNilOnDone(end) ==
    IF end = Nil THEN [resp |-> TRUE, err |-> Nil]
    ELSE IF end = "deadline" THEN [resp |-> FALSE, err |-> Nil]
    ELSE [resp |-> FALSE, err |-> end]

\* The pair a return statement of GenerateResponse yields, resp standing for
\* "the response is not nil": the last statement returns the response and
\* nil; the others return nil and the error they met (a failed token count,
\* request, status or read, or ctx.Err() after ctx.Done()).
GenerateResponse(end) ==
    IF end = Nil THEN [resp |-> TRUE, err |-> Nil]
    ELSE [resp |-> FALSE, err |-> end]

\* resp, err := mdl.GenerateResponse(...) returns; latency :=
\* time.Since(start).
Return(w) ==
    /\ runPc = "cell"
    /\ wk[w].pc = "invoking"
    /\ now >= wk[w].due
    /\ LET r == GenerateResponse(wk[w].err)
       IN  /\ wk' = [wk EXCEPT ![w].pc = "record", ![w].lat = now - wk[w].start,
                               ![w].resp = r.resp, ![w].err = r.err,
                               ![w].tok = IF r.resp THEN mdl.outTok ELSE 0]
           /\ okLat' = IF r.err = Nil THEN okLat + (now - wk[w].start)
                       ELSE okLat
    /\ UNCHANGED workerUnchanged
    /\ UNCHANGED <<runPc, results, jobs, sem, latencies, successCount,
                   failedCount, totalLatency, inputTokens, outputTokens, calls,
                   fault>>

\* An append without the lock: the slice a worker extends may be the one it
\* read before another worker's append.
RecordUnlocked(w) ==
    /\ runPc = "cell"
    /\ wk[w].pc = "record"
    /\ \E k \in {Len(latencies) - 1, Len(latencies)} \cap Nat :
           latencies' = Append(SubSeq(latencies, 1, k), wk[w].lat)
    /\ wk' = [wk EXCEPT ![w].pc = IF wk[w].err /= Nil THEN "failed" ELSE "succeeded"]
    /\ UNCHANGED workerUnchanged
    /\ UNCHANGED <<runPc, results, jobs, sem, successCount, failedCount,
                   totalLatency, inputTokens, outputTokens, calls, okLat, fault>>

\* latenciesMutex.Lock(); latencies = append(latencies, latency); Unlock():
\* the critical section as one step.
Record(w) ==
    /\ runPc = "cell"
    /\ wk[w].pc = "record"
    /\ latencies' = Append(latencies, wk[w].lat)
    /\ wk' = [wk EXCEPT ![w].pc = IF wk[w].err /= Nil THEN "failed" ELSE "succeeded"]
    /\ UNCHANGED workerUnchanged
    /\ UNCHANGED <<runPc, results, jobs, sem, successCount, failedCount,
                   totalLatency, inputTokens, outputTokens, calls, okLat, fault>>

\* err == nil: the four atomic.AddInt64.  They commute with every other
\* step and are read only after wg.Wait(), so they are taken as one step.
\* resp.InputTokens is read after the first two: on a nil resp the goroutine
\* panics there.
CountSuccess(w) ==
    /\ runPc = "cell"
    /\ wk[w].pc = "succeeded"
    /\ successCount' = successCount + 1
    /\ totalLatency' = totalLatency + wk[w].lat
    /\ IF wk[w].resp
       THEN /\ inputTokens' = inputTokens + mdl.inTok
            /\ outputTokens' = outputTokens + wk[w].tok
            /\ wk' = [wk EXCEPT ![w].pc = "release"]
            /\ UNCHANGED <<runPc, fault>>
       ELSE /\ runPc' = "crashed"
            /\ fault' = mdl.name
            /\ wk' = [wk EXCEPT ![w].pc = "panicked"]
            /\ UNCHANGED <<inputTokens, outputTokens>>
    /\ UNCHANGED workerUnchanged
    /\ UNCHANGED <<results, jobs, sem, latencies, failedCount, calls, okLat>>

\* err != nil: atomic.AddInt64(&failedCount, 1), then the first half of
\* result.Errors = append(result.Errors, err.Error()): the slice is read.
\* No lock is held.
CountFailure(w) ==
    /\ runPc = "cell"
    /\ wk[w].pc = "failed"
    /\ failedCount' = failedCount + 1
    /\ wk' = [wk EXCEPT ![w].pc = "append", ![w].seen = result.Errors]
    /\ UNCHANGED workerUnchanged
    /\ UNCHANGED <<runPc, results, jobs, sem, latencies, successCount,
                   totalLatency, inputTokens, outputTokens, calls, okLat, fault>>

\* The second half of the append: the slice read before, one element
\* longer, is stored into result.Errors.
AppendError(w) ==
    /\ runPc = "cell"
    /\ wk[w].pc = "append"
    /\ results' = [results EXCEPT ![resultKey].Errors = Append(wk[w].seen, wk[w].err)]
    /\ wk' = [wk EXCEPT ![w].pc = "release", ![w].seen = << >>]
    /\ UNCHANGED workerUnchanged
    /\ UNCHANGED <<runPc, jobs, sem, latencies, successCount, failedCount,
                   totalLatency, inputTokens, outputTokens, calls, okLat, fault>>

\* A worker that calls again after a failure, while retries are left.
ReleaseOrRetry(w) ==
    /\ runPc = "cell"
    /\ wk[w].pc = "release"
    /\ IF wk[w].err /= Nil /\ calls < requestCount + test.MaxRetries
       THEN /\ wk' = [wk EXCEPT ![w] = [IdleWorker EXCEPT !.pc = "call"]]
            /\ sem' = sem
       ELSE /\ wk' = [wk EXCEPT ![w] = [IdleWorker EXCEPT !.pc = "recv"]]
            /\ sem' = sem - 1
    /\ UNCHANGED workerUnchanged
    /\ UNCHANGED <<runPc, results, jobs, latencies, successCount, failedCount,
                   totalLatency, inputTokens, outputTokens, calls, okLat, fault>>

\* A worker that goes for its next token with its slot still taken.
ReleaseKeepsSlot(w) ==
    /\ runPc = "cell"
    /\ wk[w].pc = "release"
    /\ sem' = sem
    /\ wk' = [wk EXCEPT ![w] = [IdleWorker EXCEPT !.pc = "recv"]]
    /\ UNCHANGED workerUnchanged
    /\ UNCHANGED <<runPc, results, jobs, latencies, successCount, failedCount,
                   totalLatency, inputTokens, outputTokens, calls, okLat, fault>>

\* cancel(); <-sem; back to the head of the loop.
Release(w) ==
    /\ runPc = "cell"
    /\ wk[w].pc = "release"
    /\ sem' = sem - 1
    /\ wk' = [wk EXCEPT ![w] = [IdleWorker EXCEPT !.pc = "recv"]]
    /\ UNCHANGED workerUnchanged
    /\ UNCHANGED <<runPc, results, jobs, latencies, successCount, failedCount,
                   totalLatency, inputTokens, outputTokens, calls, okLat, fault>>

Worker(w) ==
    \/ Recv(w) \/ Exit(w) \/ Acquire(w) \/ Call(w) \/ Return(w) \/ Record(w)
    \/ CountSuccess(w) \/ CountFailure(w) \/ AppendError(w) \/ Release(w)

Main == StartCell \/ RunReturn \/ Spawn \/ Select \/ Send \/ Close \/ Aggregate

-----------------------------------------------------------------------------
(* Time.                                                                   *)

\* Something still waits for the clock: the warmup sleep, the duration
\* timer, or a call in flight.
PendingEvent ==
    \/ pc = "warmup" /\ now < warmEnd
    \/ pc \in {"select", "send"} /\ now < timerAt
    \/ \E w \in InFlight : now < wk[w].due

\* One unit of time passes.  A call returns at the instant it is due.
Tick ==
    /\ runPc = "cell"
    /\ PendingEvent
    /\ \A w \in InFlight : now < wk[w].due
    /\ now' = now + 1
    /\ UNCHANGED <<cfg, runPc, mi, li, results, e_results, retResults, retErr,
                   resultKey, started, concurrency, useStream, pc, jobs, jobsClosed, sem,
                   wk, latencies, successCount, failedCount, totalLatency,
                   inputTokens, outputTokens, requestCount, startTime, timerAt,
                   warmEnd, calls, lateSends, okLat, fault>>

Step == Main \/ \E w \in Workers : Worker(w)

\* Time passes only when no goroutine can take a step: statements other
\* than the call of the invoker take no time.
TickUrgent == (~ENABLED Step) /\ Tick

Next ==
    \/ StartCell \/ RunReturn \/ Spawn \/ Select \/ Send \/ Close \/ Aggregate
    \/ \E w \in Workers : Recv(w)
    \/ \E w \in Workers : Exit(w)
    \/ \E w \in Workers : Acquire(w)
    \/ \E w \in Workers : Call(w)
    \/ \E w \in Workers : Return(w)
    \/ \E w \in Workers : Record(w)
    \/ \E w \in Workers : CountSuccess(w)
    \/ \E w \in Workers : CountFailure(w)
    \/ \E w \in Workers : AppendError(w)
    \/ \E w \in Workers : Release(w)
    \/ Tick

\* Any scheduling of the goroutines.
Spec == Init /\ [][Next]_vars

TimedNext == Step \/ TickUrgent

\* Scheduling without delay.
TimedSpec == TimedInit /\ [][TimedNext]_vars

ReducerNext == Aggregate \/ RunReturn

\* The aggregation, percentile reducer included, on every sample list.
ReducerSpec == ReducerInit /\ [][ReducerNext]_vars

ScenarioInit == InitWith({CfgScenario})

\* Of the workers that can run, the one spawned first runs.
FirstRunnable(w) == \A v \in Workers : v < w => ~ENABLED Worker(v)

ScenarioWorker ==
    \E w \in Workers :
        /\ FirstRunnable(w)
        /\ \/ Recv(w) \/ Exit(w) \/ Acquire(w) \/ Call(w) \/ Return(w)
           \/ Record(w) \/ CountSuccess(w) \/ Release(w)

ScenarioNext == Main \/ ScenarioWorker \/ TickUrgent

\* The scenario scheduled without delay, the runnable workers in the order
\* of their spawning.
ScenarioSpec == ScenarioInit /\ [][ScenarioNext]_vars

MainNext == InitModels \/ ScenarioNext

\* The program from main on, scheduled without delay.
MainSpec == MainInit /\ [][MainNext]_vars

\* Every level that occurs in a configuration, and the worker identities.
AllLevels ==
    UNION { UNION { {c.models[i].levels[j] : j \in DOMAIN c.models[i].levels}
                    : i \in DOMAIN c.models }
            \cup {c.test.ConcurrencyLevels[j] : j \in DOMAIN c.test.ConcurrencyLevels}
            \cup {c.test.Concurrency} : c \in TimedConfigs }

PoolIds == UNION { 1..l : l \in AllLevels }

\* The Go scheduler runs every runnable goroutine eventually, and time
\* goes on.
Fairness ==
    /\ WF_vars(Main)
    /\ \A w \in PoolIds : WF_vars(w \in Workers /\ Worker(w))
    /\ WF_vars(Tick)

FairSpec == Spec /\ Fairness


-----------------------------------------------------------------------------
(* Properties.                                                             *)

\* A cell has returned and the next one has not started.
CellDone == pc = "idle" /\ resultKey /= Nil

\* The variant of the cell whose result is `result`.
CellVariant ==
    CHOOSE m \in {cfg.models[i] : i \in DOMAIN cfg.models} : m.name = result.ModelName

\* L: the longest a call of the cell's variant can take, the request
\* timeout included.
CellLatencyBound ==
    LET ds == {Min(d, test.RequestTimeout) : d \in CellVariant.lats}
    IN  CHOOSE x \in ds : \A y \in ds : y <= x

\* C1: when a cell has returned, SuccessRequests + FailedRequests equals
\* TotalRequests, which is the number of tokens pushed, and every pushed
\* token caused exactly one call of the invoker.
CountsReconcile ==
    CellDone =>
        /\ result.SuccessRequests + result.FailedRequests = result.TotalRequests
        /\ result.TotalRequests = requestCount
        /\ calls = requestCount

CountsReconcileWitness ==
    /\ CellDone
    /\ result.ConcurrencyLevel >= 1
    /\ result.SuccessRequests >= 1
    /\ result.FailedRequests >= 1
    /\ result.TotalRequests >= 3

\* C2: in a cell at level C at most C calls of the invoker are in flight.
InFlightBound ==
    (runPc = "cell") => Cardinality(InFlight) <= result.ConcurrencyLevel

InFlightBoundWitness ==
    /\ runPc = "cell"
    /\ result.ConcurrencyLevel = 2
    /\ Cardinality(InFlight) = 2

\* C3 as claimed: the measured duration of a cell exceeds the configured
\* duration by at most L, the longest time a call takes.
OverrunOneLatency ==
    CellDone => result.TotalDuration <= test.Duration + CellLatencyBound

\* C3 as amended: with goroutines scheduled without delay the measured
\* duration exceeds the configured duration by at most 4 * L.
OverrunFourLatencies ==
    CellDone => result.TotalDuration <= test.Duration + 4 * CellLatencyBound

OverrunFourLatenciesWitness ==
    /\ CellDone
    /\ result.ConcurrencyLevel >= 1
    /\ result.TotalDuration > test.Duration + 3 * CellLatencyBound

\* C4: once the duration timer has fired no further token is pushed.
NoPushAfterTimer == lateSends = 0

\* C5: a cell with scheduled requests and no success has zero rates, zero
\* averages and no percentile entry.
ZeroSuccessCell ==
    (CellDone /\ result.TotalRequests > 0 /\ result.SuccessRequests = 0) =>
        /\ result.RequestsPerSec = Zero
        /\ result.TokensPerSec = Zero
        /\ result.AvgLatency = 0
        /\ result.AvgInputTokens = Zero
        /\ result.AvgOutputTokens = Zero
        /\ result.AvgTotalTokens = Zero
        /\ DOMAIN result.LatencyPercentiles = {}

\* The calls of the variant under test return (none panics).
InvokerReturns == mdl.type /= "openai" \/ mdl.paramsOk

\* A call of the invoker has panicked.
InvokerPanicked == \E w \in Workers : wk[w].pc = "panicked"

\* Run has come to its end: it has returned or the process has died.
RunEnded == runPc \in {"returned", "crashed"}

\* C6: a cell that has started, on a variant whose calls all return, runs
\* to completion under fair scheduling.
CellCompletes == (runPc = "cell" /\ InvokerReturns) ~> CellDone

\* C7: when a cell has returned every one of its C workers has exited, the
\* channel is closed and empty, no call is in flight and no semaphore slot
\* is held.
Drained ==
    CellDone =>
        /\ Cardinality(Workers) = result.ConcurrencyLevel
        /\ AllExited
        /\ jobsClosed
        /\ jobs = 0
        /\ InFlight = {}
        /\ sem = 0

DrainedWitness ==
    /\ CellDone
    /\ result.ConcurrencyLevel = 2
    /\ lateSends = 1
    /\ result.TotalRequests >= 6

\* C8: when a cell has returned its error list has one entry for each
\* failed request.
ErrorsRecorded == CellDone => Len(result.Errors) = result.FailedRequests

\* C9: a run in which a call of the invoker panicked ends with Run
\* returning no ResultSet and an error that names the variant.
PanicIsReturned ==
    (RunEnded /\ InvokerPanicked) =>
        /\ runPc = "returned"
        /\ retResults = NoResults
        /\ retErr = fault

PrecedenceLevels(i) ==
    LET own    == cfg.models[i].levels
        global == cfg.test.ConcurrencyLevels
    IN  IF own /= << >> THEN own
        ELSE IF global /= << >> THEN global
        ELSE << cfg.test.Concurrency >>

\* The cells of the matrix from variant i on, in order.
RECURSIVE CellsFrom(_)
CellsFrom(i) ==
    IF i > Len(cfg.models) THEN << >>
    ELSE [j \in DOMAIN PrecedenceLevels(i) |-> <<i, PrecedenceLevels(i)[j]>>]
         \o CellsFrom(i + 1)

IsPrefix(s, t) == Len(s) <= Len(t) /\ s = SubSeq(t, 1, Len(s))

\* C11: the cells Run starts are, in order, the levels the precedence rule
\* gives each variant (own list, else global list, else the global
\* concurrency); when Run returns it has run each of them once and no other.
MatrixResolution ==
    /\ IsPrefix(started, CellsFrom(1))
    /\ (runPc = "returned" => started = CellsFrom(1))

\* An override next to a global list: variant 1 ran its own levels, variant
\* 2 the global ones.
MatrixResolutionWitness ==
    /\ runPc = "returned"
    /\ cfg.models[1].levels = <<1, 2>>
    /\ cfg.test.ConcurrencyLevels = <<2, 1>>
    /\ started = << <<1, 1>>, <<1, 2>>, <<2, 2>>, <<2, 1>> >>

\* C12: cells run one after the other: between two cells no worker is alive
\* and no call is in flight, and at the step that starts a cell every
\* worker of the cell before has exited.
SequentialCells ==
    [][ /\ (runPc = "run" => (AllExited /\ InFlight = {} /\ sem = 0))
        /\ (Len(started') > Len(started) => (AllExited /\ InFlight = {})) ]_vars

\* The workers of a second cell are alive, those of the first have gone.
SequentialCellsWitness ==
    /\ Len(started) = 2
    /\ runPc = "cell"
    /\ \E w \in Workers : wk[w].pc \in {"acquire", "call"}

\* The samples of `latencies` below v, and those not above it.
SamplesBelow(v) == Cardinality({i \in DOMAIN latencies : latencies[i] < v})
SamplesUpTo(v) == Cardinality({i \in DOMAIN latencies : latencies[i] <= v})

\* floor((n - 1) * p / 100) lies in 0..n-1 and v is what an ascending sort
\* of `latencies` has at that zero-based index.
IsNearestRank(v, p) ==
    LET n == Len(latencies)
    IN  \E k \in 0..(n - 1) :
            /\ k * 100 <= (n - 1) * p
            /\ (n - 1) * p < (k + 1) * 100
            /\ SamplesBelow(v) <= k
            /\ SamplesUpTo(v) >= k + 1

\* C13: for a non-empty sample list of length n and every requested p in
\* 0..100 the reducer's entry for p is the element at zero-based index
\* floor((n-1)*p/100) of the ascending-sorted list, an index within 0..n-1.
NearestRank ==
    (CellDone /\ latencies /= << >>) =>
        /\ DOMAIN result.LatencyPercentiles =
               {test.LatencyPercentiles[i] : i \in DOMAIN test.LatencyPercentiles}
        /\ \A p \in DOMAIN result.LatencyPercentiles :
               IsNearestRank(result.LatencyPercentiles[p], p)

\* The samples 10, 20, 30, 40, 50 ms, out of order: P50 is 30 ms.
NearestRankWitness ==
    /\ CellDone
    /\ latencies = ExampleSamples
    /\ DOMAIN result.LatencyPercentiles = 0..100
    /\ result.LatencyPercentiles[50] = 30

\* C14: for two requested percentiles p <= q in 0..100 the entry of p is
\* at most the entry of q.
PercentilesMonotone ==
    CellDone =>
        \A p, q \in DOMAIN result.LatencyPercentiles \cap 0..100 :
            p <= q => result.LatencyPercentiles[p] <= result.LatencyPercentiles[q]

\* P50, P90, P95 and P99 all requested, with P50 < P90 and P99 < P100.
PercentilesMonotoneWitness ==
    /\ CellDone
    /\ {50, 90, 95, 99} \subseteq DOMAIN result.LatencyPercentiles
    /\ result.LatencyPercentiles[50] < result.LatencyPercentiles[90]
    /\ result.LatencyPercentiles[99] < result.LatencyPercentiles[100]

\* C15: the measured duration of a completed cell is at least the
\* configured duration.
DurationReached == CellDone => result.TotalDuration >= test.Duration

\* A cell that ran requests and took exactly the configured duration.
DurationReachedWitness ==
    /\ CellDone
    /\ result.ConcurrencyLevel >= 1
    /\ result.TotalRequests >= 1
    /\ result.TotalDuration = test.Duration

\* The quotient f is n / d.
FracIs(f, n, d) == f.den /= 0 /\ d /= 0 /\ f.num * d = n * f.den

\* C16: a completed cell with successes has RequestsPerSec = successes /
\* elapsed, TokensPerSec = tokens of the successful requests / elapsed, the
\* token averages = token sums / successes and AvgLatency = the summed
\* latency of the successful requests / successes (a time.Duration, so in
\* whole units); a completed cell without success has all of them 0.
RatesAndAverages ==
    CellDone =>
        LET n     == result.SuccessRequests
            d     == result.TotalDuration
            inTok == n * CellVariant.inTok
            outTok == n * CellVariant.outTok
        IN  IF n > 0
            THEN /\ result.InputTokens = inTok
                 /\ result.OutputTokens = outTok
                 /\ result.TotalTokens = inTok + outTok
                 /\ FracIs(result.RequestsPerSec, n, d)
                 /\ FracIs(result.TokensPerSec, inTok + outTok, d)
                 /\ FracIs(result.AvgInputTokens, inTok, n)
                 /\ FracIs(result.AvgOutputTokens, outTok, n)
                 /\ FracIs(result.AvgTotalTokens, inTok + outTok, n)
                 /\ n * result.AvgLatency <= okLat
                 /\ okLat < n * (result.AvgLatency + 1)
            ELSE /\ result.RequestsPerSec = Zero
                 /\ result.TokensPerSec = Zero
                 /\ result.AvgInputTokens = Zero
                 /\ result.AvgOutputTokens = Zero
                 /\ result.AvgTotalTokens = Zero
                 /\ result.AvgLatency = 0

\* Successes of different latencies next to a failure.
RatesAndAveragesWitness ==
    /\ CellDone
    /\ result.SuccessRequests >= 2
    /\ result.FailedRequests >= 1
    /\ okLat > result.SuccessRequests

\* C17: in the scenario (level 10, 1 s, every call a success after 50 ms)
\* the completed cell has between 180 and 220 scheduled requests and no
\* failed one.
ScenarioCount ==
    CellDone =>
        /\ result.TotalRequests >= 180
        /\ result.TotalRequests <= 220
        /\ result.FailedRequests = 0

\* Variant names, some ending like a key, and levels of one and two digits.
KeyNames == {"a", "a-", "a-1", "a-1-1", "b", "a1"}
KeyLevels == {0, 1, 2, 9, 10, 11, 21, 100, 101}

\* Pairs that differ have keys that differ.
KeysDiffer ==
    \A p, q \in KeyNames \X KeyLevels :
        ResultKey(p[1], p[2]) = ResultKey(q[1], q[2]) => p = q

\* The (variant name, level) pairs of the cells started so far.
PairsRun ==
    { <<cfg.models[started[i][1]].name, started[i][2]>> : i \in DOMAIN started }

\* C18: different (variant name, level) pairs with levels >= 0 have
\* different keys; the ResultSet Run returns has exactly one entry for each
\* distinct pair that was run, carrying that pair; and a completed cell's
\* entry holds the counts of that run alone, also when the pair had been
\* run before.
OneEntryPerPair ==
    /\ KeysDiffer
    /\ CellDone =>
           /\ result.TotalRequests = requestCount
           /\ result.SuccessRequests = successCount
           /\ result.FailedRequests = failedCount
           /\ result.TotalDuration = now - startTime
           /\ <<result.ModelName, result.ConcurrencyLevel>>
                  = <<cfg.models[started[Len(started)][1]].name,
                      started[Len(started)][2]>>
    /\ (runPc = "returned" /\ \A p \in PairsRun : p[2] >= 0) =>
           /\ ~retResults.nil
           /\ DOMAIN retResults.map = {ResultKey(p[1], p[2]) : p \in PairsRun}
           /\ Cardinality(DOMAIN retResults.map) = Cardinality(PairsRun)
           /\ \A p \in PairsRun :
                  LET r == retResults.map[ResultKey(p[1], p[2])]
                  IN  r.ModelName = p[1] /\ r.ConcurrencyLevel = p[2]

\* Three cells run, two of them the same pair: two entries, and the entry
\* of the repeated pair holds the four requests of its later run.
OneEntryPerPairWitness ==
    /\ runPc = "returned"
    /\ Len(started) = 3
    /\ started[1] = started[2]
    /\ Cardinality(DOMAIN retResults.map) = 2
    /\ retResults.map["a-1"].TotalRequests = 4
    /\ retResults.map["a-1-1"].TotalRequests >= 1

\* The workers at one of the given statements.
WorkersAt(pcs) == Cardinality({w \in Workers : wk[w].pc \in pcs})

\* Every token taken from the channel has led to exactly one call of the
\* invoker, every call that has returned to exactly one counted outcome,
\* and the calls of a completed cell number TotalRequests.
OneCallPerToken ==
    /\ (runPc = "cell" \/ CellDone) =>
           /\ requestCount = jobs + WorkersAt({"acquire", "call"}) + calls
           /\ calls = successCount + failedCount
                        + WorkersAt({"invoking", "record", "succeeded", "failed"})
    /\ CellDone => calls = result.TotalRequests

\* A worker that leaves the failure branch has counted one failure, and
\* from the end of the loop body it goes to the head of the loop, for the
\* next token, and the cell goes on.
FailureGoesOn ==
    \A w \in DOMAIN wk \cap DOMAIN wk' :
        /\ (wk[w].pc = "failed" /\ wk'[w].pc /= "failed") =>
               (failedCount' = failedCount + 1 /\ wk'[w].pc = "append")
        /\ (wk[w].pc = "append" /\ wk'[w].pc /= "append") => wk'[w].pc = "release"
        /\ (wk[w].pc = "release" /\ wk'[w].pc /= "release") =>
               (wk'[w].pc = "recv" /\ runPc' = "cell")

InWarmup == runPc = "cell" /\ pc = "warmup"

\* C20: with a warmup configured, the cell sleeps for it before anything is
\* measured: while it sleeps no worker exists, no call has been made, no
\* sample and no counter has been recorded; the measurement starts no
\* earlier than the warmup's end; and the measured duration of a completed
\* cell leaves the warmup out.
WarmupUnmeasured ==
    test.WarmupDuration > 0 =>
        /\ InWarmup =>
               /\ Workers = {}
               /\ calls = 0
               /\ latencies = << >>
               /\ successCount = 0 /\ failedCount = 0 /\ totalLatency = 0
               /\ inputTokens = 0 /\ outputTokens = 0
               /\ requestCount = 0 /\ jobs = 0
               /\ result = NewResult(result.ModelName, result.ConcurrencyLevel)
        /\ ((runPc = "cell" /\ ~InWarmup) \/ CellDone) =>
               /\ startTime >= test.WarmupDuration
               /\ timerAt >= test.WarmupDuration + test.Duration
        /\ CellDone => result.TotalDuration + test.WarmupDuration <= now

\* A cell with a warmup that made calls and measured the time since the
\* warmup's end.
WarmupUnmeasuredWitness ==
    /\ CellDone
    /\ test.WarmupDuration > 0
    /\ result.TotalRequests >= 2
    /\ startTime = test.WarmupDuration
    /\ result.TotalDuration + test.WarmupDuration = now

\* The dispatcher is suspended inside `jobs <- struct{}{}`: the channel is
\* full and only a worker taking a token lets it go on.
DispatcherSuspended ==
    runPc = "cell" /\ pc = "send" /\ jobs >= JobsCapacity(concurrency)

\* C21: the dispatcher is never suspended inside the send once the duration
\* timer has fired: it can leave the dispatch loop without a worker taking
\* a token first.
NonBlockingPush == ~(DispatcherSuspended /\ TimerFired)

\* C22: the end of the run cancels nothing: a call is ended from outside
\* only by its own request timeout, a full RequestTimeout after its start,
\* also when the call is under way or its token still buffered when the
\* duration timer fires; and every pushed token stays accounted for after
\* the timer and the close, until it is counted as a success or a failure.
RunBoundaryCancelsNothing ==
    /\ runPc = "cell" =>
           \A w \in Workers :
               /\ (wk[w].pc = "invoking" /\ wk[w].err = "deadline") =>
                      wk[w].due = wk[w].start + test.RequestTimeout
               /\ (wk[w].pc \in {"record", "failed", "append"} /\ wk[w].err = "deadline") =>
                      wk[w].lat >= test.RequestTimeout
    /\ (runPc = "cell" /\ TimerFired /\ pc \in {"select", "send", "close", "wait"}) =>
           requestCount = jobs + WorkersAt({"acquire", "call"})
                            + WorkersAt({"invoking", "record", "succeeded", "failed"})
                            + successCount + failedCount
    /\ CellDone => successCount + failedCount = requestCount

\* After the close a token is still buffered and a call that started after
\* the timer had fired is under way.
RunBoundaryCancelsNothingWitness ==
    /\ runPc = "cell"
    /\ jobsClosed
    /\ jobs >= 1
    /\ \E w \in InFlight : wk[w].start >= timerAt /\ wk[w].due > now

\* The entries of a sequence.
Range(s) == {s[i] : i \in DOMAIN s}

Callers ==
    {w \in Workers : wk[w].pc \in {"invoking", "record", "succeeded", "failed",
                                   "append", "release"}}

\* C24: every call of a cell is made with the variant's own stream setting
\* when the variant has one, be it true or false, and with the global
\* prompt setting otherwise.
StreamResolution ==
    runPc = "cell" =>
        \A w \in Callers :
            wk[w].stream = IF mdl.stream.set THEN mdl.stream.val
                           ELSE cfg.prompt.Stream

\* A variant with stream: false under a global stream: true, in a call made
\* without streaming.
StreamResolutionWitness ==
    /\ runPc = "cell"
    /\ mdl.stream = StreamSet(FALSE)
    /\ cfg.prompt.Stream
    /\ \E w \in InFlight : ~wk[w].stream

\* An entry InitializeModels must give up on: not skipped, and of an
\* unsupported type or with a constructor that fails.
BadEntries ==
    {i \in DOMAIN cfg.variants :
        /\ ~cfg.variants[i].skip
        /\ \/ cfg.variants[i].v.type \notin {"openai", "anthropic", "gemini"}
           \/ (cfg.variants[i].v.type = "gemini" /\ ~cfg.variants[i].builds)}

\* The variants of the entries that are not skipped, in configured order.
KeptVariants ==
    LET kept == SelectSeq(cfg.variants, LAMBDA e : ~e.skip)
    IN  [i \in DOMAIN kept |-> kept[i].v]

\* C25: InitializeModels either fails, at the first entry that is not
\* skipped and cannot be constructed, and then the program ends with no
\* cell run and no result; or it yields the invokers of exactly the entries
\* that are not skipped, in configured order, and only then does Run start.
ConstructionAllOrNothing ==
    runPc /= "main" =>
        IF BadEntries /= {}
        THEN /\ runPc = "fatal"
             /\ fault = cfg.variants[CHOOSE i \in BadEntries :
                                        \A j \in BadEntries : i <= j].v.name
             /\ cfg.models = << >>
             /\ started = << >>
             /\ results = EmptyMap
             /\ e_results = EmptyMap
             /\ retResults = NoResults
        ELSE /\ runPc /= "fatal"
             /\ cfg.models = KeptVariants
             /\ \A i \in DOMAIN started : started[i][1] \in DOMAIN KeptVariants

\* A run that got through construction with an entry skipped and ran the
\* other two variants.
ConstructionAllOrNothingWitness ==
    /\ runPc = "returned"
    /\ Len(cfg.variants) = 3
    /\ Len(cfg.models) = 2
    /\ DOMAIN retResults.map = {"a-1", "c-1"}

\* The workers that hold the pair a call returned.
Returned == {w \in Workers : wk[w].pc \in {"record", "succeeded", "failed",
                                           "append"}}

\* C26: a returned call holds a response or an error and never both or
\* neither, so the success branch always finds a response to read the token
\* counts from; the only panic of a worker is the one on the parameters of
\* an OpenAI variant, before the call.
ResponseXorError ==
    /\ \A w \in Returned : wk[w].resp <=> (wk[w].err = Nil)
    /\ \A w \in Workers : wk[w].pc = "succeeded" => wk[w].resp
    /\ \A w \in Workers :
           wk[w].pc = "panicked" => (mdl.type = "openai" /\ ~mdl.paramsOk)

\* A worker holding the error of an ended context and no response, after
\* the token counts of an earlier response were read.
ResponseXorErrorWitness ==
    /\ outputTokens > 0
    /\ \E w \in Returned :
           wk[w].pc = "failed" /\ ~wk[w].resp /\ wk[w].err = "deadline"

\* The statements between `sem <- struct{}{}` and `<-sem` of the loop body.
HoldingSlot == {"call", "invoking", "record", "succeeded", "failed", "append",
                "release", "panicked"}

\* C27: the semaphore never holds more than C slots; the slots taken are
\* those of the workers inside the loop body, so a worker that waits for
\* its next token holds none; and a worker that comes to the acquisition
\* finds a free slot, so the acquisition never blocks.
SemaphoreRedundant ==
    (runPc \in {"cell", "crashed"} /\ Workers /= {}) =>
        /\ Cardinality(Workers) = concurrency
        /\ sem <= concurrency
        /\ sem = WorkersAt(HoldingSlot)
        /\ \A w \in Workers : wk[w].pc = "acquire" => sem < concurrency

\* At level 2, after slots were released, one worker in the loop body and
\* the other at the acquisition.
SemaphoreRedundantWitness ==
    /\ runPc = "cell"
    /\ concurrency = 2
    /\ calls >= 3
    /\ sem = 1
    /\ \E w \in Workers : wk[w].pc = "acquire"

\* The tokens pushed and counted whose outcome is not counted yet.
Backlog == requestCount - (successCount + failedCount)

\* C28: in a cell at level C the tokens pushed and counted exceed the
\* counted outcomes by at most 3 * C: at most 2 * C wait in the channel and
\* at most C are with the workers.
BacklogBound ==
    runPc = "cell" =>
        /\ Backlog <= 3 * concurrency
        /\ jobs <= 2 * concurrency
        /\ Backlog - jobs <= concurrency

\* The bound is met at level 2: four tokens wait and both workers have one.
BacklogBoundWitness ==
    /\ runPc = "cell"
    /\ concurrency = 2
    /\ jobs = 4
    /\ Backlog = 6
    /\ successCount + failedCount >= 1

\* C29: the latency list of a completed cell has one sample for each
\* scheduled request, failed ones included: its length is TotalRequests,
\* which is SuccessRequests + FailedRequests; while the cell runs the list
\* has one sample for each call whose latency was recorded, however the
\* workers' recordings interleave.
OneSamplePerRequest ==
    /\ runPc = "cell" =>
           Len(latencies) = successCount + failedCount
                              + WorkersAt({"succeeded", "failed"})
    /\ CellDone =>
           /\ Len(result.AllLatencies) = result.TotalRequests
           /\ result.TotalRequests
                  = result.SuccessRequests + result.FailedRequests
           /\ result.AllLatencies = latencies

\* A completed cell at level 2 whose requests all failed: two workers
\* recorded their samples side by side, one sample for each failure.
OneSamplePerRequestWitness ==
    /\ CellDone
    /\ result.ConcurrencyLevel = 2
    /\ result.SuccessRequests = 0
    /\ result.FailedRequests >= 4
    /\ Len(result.AllLatencies) = result.FailedRequests

\* While the channel of a cell is closed the dispatcher is past the
\* dispatch loop and the close, and a completed cell's channel is closed.
ClosedAfterLoop ==
    /\ (runPc = "cell" /\ jobsClosed) => pc = "wait"
    /\ (runPc = "cell" /\ pc \in {"warmup", "spawn", "select", "send", "close"}) =>
           ~jobsClosed
    /\ CellDone => jobsClosed

\* A step of a cell closes the channel only from the statement after the
\* dispatch loop and only when it is open; nothing is sent on a closed
\* channel; and a worker exits only when the channel is closed and empty.
CloseDiscipline ==
    /\ (runPc = "cell" /\ runPc' = "cell" /\ jobsClosed' /= jobsClosed) =>
           (~jobsClosed /\ jobsClosed' /\ pc = "close" /\ pc' = "wait")
    /\ (runPc = "cell" /\ jobsClosed) =>
           (jobs' <= jobs /\ requestCount' = requestCount)
    /\ \A w \in DOMAIN wk \cap DOMAIN wk' :
           (wk[w].pc /= "exited" /\ wk'[w].pc = "exited") =>
               (jobsClosed /\ jobs = 0 /\ wk[w].pc = "recv")

\* C30: the channel of a cell is closed once, after the dispatcher has left
\* the dispatch loop; no token is sent on it once it is closed; and a worker
\* terminates only when the channel is closed and empty.
ClosedOnce == []ClosedAfterLoop /\ [][CloseDiscipline]_vars

\* At level 2 the channel is closed and empty, one worker has exited and
\* the other is still in the call of a token pushed after the timer fired.
ClosedOnceWitness ==
    /\ runPc = "cell"
    /\ concurrency = 2
    /\ jobsClosed /\ jobs = 0
    /\ lateSends = 1
    /\ \E v, w \in Workers : wk[v].pc = "exited" /\ wk[w].pc = "invoking"

=============================================================================
